---- MODULE Spec2Model ----
(***************************************************************************)
(* asynckeybow: the KeyInterface (scripted, hardware and dummy event        *)
(* sources, LED control), KeyState, the KeySequenceListener.produce loop   *)
(* and the example consumer.                                               *)
(*                                                                         *)
(* Values.  Python's None and the empty list [] are the empty tuple <<>>.  *)
(* A float is kept in tenths (fixed point, x10): "0.2" is 2, "1" is 10.    *)
(* The clock `now` (time.time()) is kept in tenths of a second as well;    *)
(* asyncio.sleep(x) lets exactly x elapse and nothing else takes time.     *)
(* A keypress is the tuple <<key, pressed>> with key a float in tenths, a  *)
(* timeline entry is <<timestamp, keypress>>, a published item is [] or    *)
(* <<int key, sequence>>.                                                  *)
(***************************************************************************)
EXTENDS Integers, Sequences, FiniteSets, TLC

\* ---- bounds of the model ----
MaxScriptLen == 3
MaxCallbacks == 3
MaxLedScriptLen == 1
MaxLedCallbacks == 1

\* ---- program constants ----
TimelineCap == 50
HoldThresholdMs == 500
LongSleep == 999999990
KeyCount == 3

None == <<>>

\* ---- Python values a caller may assign to KeyState.pressed ----
\* A value is its type and, for the numeric types, its number; True and
\* False are the bool 1 and 0.
PyTrue == [t |-> "bool", v |-> 1]
PyFalse == [t |-> "bool", v |-> 0]
PyBool(b) == IF b THEN PyTrue ELSE PyFalse
PyInt(n) == [t |-> "int", v |-> n]
PyStr == [t |-> "str", v |-> 0]
PyNone == [t |-> "NoneType", v |-> 0]

\* a == b in Python: bool and int compare by number, anything else with itself.
PyEq(a, b) ==
  IF a.t \in {"bool", "int"} /\ b.t \in {"bool", "int"} THEN a.v = b.v ELSE a = b

KeySequence == {"SINGLE", "HOLD", "DOUBLE"}

\* ---- the script mini-language ----
\* The command lines the scripts are drawn from: well-formed down/up/sleep
\* lines, a line with one token, a line with a non-numeric argument, a line
\* with an unknown op and a line with a key index outside the registry.
ScriptLines ==
  {"down 0", "up 0", "down 1", "up 1",
   "sleep 0.2", "sleep 0.5", "sleep 0.6",
   "down", "up x", "blink 1", "down 7"}

\* str.split(): the whitespace-separated tokens of a command line.
Split(cmd) ==
  CASE cmd = "down 0" -> <<"down", "0">>
    [] cmd = "up 0" -> <<"up", "0">>
    [] cmd = "down 1" -> <<"down", "1">>
    [] cmd = "up 1" -> <<"up", "1">>
    [] cmd = "sleep 0.2" -> <<"sleep", "0.2">>
    [] cmd = "sleep 0.5" -> <<"sleep", "0.5">>
    [] cmd = "sleep 0.6" -> <<"sleep", "0.6">>
    [] cmd = "down" -> <<"down">>
    [] cmd = "up x" -> <<"up", "x">>
    [] cmd = "blink 1" -> <<"blink", "1">>
    [] cmd = "down 7" -> <<"down", "7">>

\* float(arg) succeeds on these tokens ...
IsFloat(tok) == tok \in {"0", "1", "7", "0.2", "0.5", "0.6"}

\* ... and this is its value, in tenths.
Float(tok) ==
  CASE tok = "0" -> 0
    [] tok = "1" -> 10
    [] tok = "7" -> 70
    [] tok = "0.2" -> 2
    [] tok = "0.5" -> 5
    [] tok = "0.6" -> 6

\* int(x) of a non-negative float: truncation.
IntOf(x) == x \div 10

\* `(op, arg) = cmd.split()` followed by `arg = float(arg)` raises ValueError.
ParseFails(cmd) ==
  IF Len(Split(cmd)) # 2 THEN TRUE ELSE ~IsFloat(Split(cmd)[2])

Op(cmd) == Split(cmd)[1]
Arg(cmd) == Float(Split(cmd)[2])

\* self._state[idx] with a float idx: the dict has the int keys
\* 0..keycount-1, and a float equal to an int hashes to the same slot.
HasKey(idx) == idx % 10 = 0 /\ IntOf(idx) \in 0..(KeyCount - 1)

\* ---- inputs: scripts ----
ShortScripts == UNION {[1..n -> ScriptLines] : n \in 0..MaxScriptLen}

\* down 0, then TimelineCap transitions of key 1, then up 0.
EvictScript ==
  [i \in 1..(TimelineCap + 2) |->
     IF i = 1 THEN "down 0"
     ELSE IF i = TimelineCap + 2 THEN "up 0"
     ELSE IF i % 2 = 0 THEN "down 1" ELSE "up 1"]

\* TimelineCap + 3 alternating transitions of key 1.
LongScript ==
  [i \in 1..(TimelineCap + 3) |-> IF i % 2 = 1 THEN "down 1" ELSE "up 1"]

Scripts == ShortScripts \cup {EvictScript, LongScript}

VARIABLES
  script,       \* KeyInterface._script
  cursor,       \* KeyInterface._script_position
  state,        \* KeyInterface._state: key index -> KeyState
  last_press,   \* KeyInterface._last_press
  listen_for,   \* KeySequenceListener._listen_for
  tl,           \* KeySequenceListener._tl
  keypress,     \* produce: local keypress
  last_action,  \* produce: local last_action
  result,       \* produce: local result
  q,            \* the asyncio.Queue handed to produce
  pc,           \* where the produce task stands
  err,          \* the exception that ended the produce task
  now,          \* time.time(), in tenths of a second
  wake,         \* when the pending asyncio.sleep ends
  pollLog,      \* history: every value async_wait returned to produce
  pushLog,      \* history: every entry appended to the timeline
  putLog,       \* history: every item put on the queue
  received,     \* history: every item the consumer got
  impl,         \* KeyInterface._impl
  last,         \* async_wait (KEYBOW): local last
  cbLog,        \* history: every transition the driver callback recorded
  apiErr        \* the exception the last LED / KeyState call raised to its caller

vars == <<script, cursor, state, last_press, listen_for, tl, keypress,
          last_action, result, q, pc, err, now, wake,
          pollLog, pushLog, putLog, received, impl, last, cbLog, apiErr>>

ifaceVars == <<script, cursor, state, last_press>>
listenerVars == <<listen_for, tl, keypress, last_action, result>>
logVars == <<pollLog, pushLog, putLog, received>>
hwVars == <<impl, last, cbLog>>

\* KeyState.__init__
KeyState == [pressed |-> PyFalse, r |-> 0, g |-> 0, b |-> 0]

\* deque([None for x in range(50)], 50)
EmptyTimeline == [i \in 1..TimelineCap |-> None]

\* Everything but the event source, its script and the interest set.
InitRest ==
  /\ cursor = 0
  /\ state = [k \in 0..(KeyCount - 1) |-> KeyState]
  /\ last_press = None
  /\ tl = EmptyTimeline
  /\ keypress = None
  /\ last_action = None
  /\ result = <<>>
  /\ q = <<>>
  /\ pc = "poll"
  /\ err = ""
  /\ now = 0
  /\ wake = 0
  /\ pollLog = <<>>
  /\ pushLog = <<>>
  /\ putLog = <<>>
  /\ received = <<>>
  /\ last = None
  /\ cbLog = <<>>
  /\ apiErr = ""

\* KeyInterface(Implementation.KEYBOW), setup(): no script.
InitHW ==
  /\ impl = "KEYBOW"
  /\ script = <<>>
  /\ listen_for \in {{"SINGLE"}, {"SINGLE", "HOLD"}}
  /\ InitRest

Init ==
  /\ script \in Scripts
  /\ cursor = 0
  /\ state = [k \in 0..(KeyCount - 1) |-> KeyState]
  /\ last_press = None
  /\ listen_for \in SUBSET KeySequence
  /\ tl = EmptyTimeline
  /\ keypress = None
  /\ last_action = None
  /\ result = <<>>
  /\ q = <<>>
  /\ pc = "poll"
  /\ err = ""
  /\ now = 0
  /\ wake = 0
  /\ pollLog = <<>>
  /\ pushLog = <<>>
  /\ putLog = <<>>
  /\ received = <<>>
  /\ impl = "SIMULATED"
  /\ last = None
  /\ cbLog = <<>>
  /\ apiErr = ""

\* ---- KeyInterface ----

\* Variant of KeyUpdatePressed: the registry is left as it was.
KeyUpdateSkipped(st, idx, val) == st

\* key_update(idx, state): the pressed flag of key idx, then the mailbox.
KeyUpdatePressed(st, idx, val) ==
  [st EXCEPT ![IntOf(idx)] = [@ EXCEPT !.pressed = PyBool(val)]]

\* async_wait, SIMULATED, script exhausted: log, show() and the long sleep.
ScriptCompleted ==
  /\ impl = "SIMULATED"
  /\ pc = "poll"
  /\ cursor >= Len(script)
  /\ pc' = "idle"
  /\ wake' = now + LongSleep
  /\ result' = <<>>
  /\ UNCHANGED <<ifaceVars, listen_for, tl, keypress, last_action, q, err, now, logVars>>
  /\ UNCHANGED <<hwVars, apiErr>>

\* The long sleep ends: execution goes on to `cmd = self._script[...]` with
\* the position still at or past the end of the list.
ScriptCompletedWake ==
  /\ impl = "SIMULATED"
  /\ pc = "idle"
  /\ now' = wake
  /\ IF cursor >= Len(script)
     THEN /\ pc' = "failed"
          /\ err' = "IndexError"
          /\ cursor' = cursor
     ELSE /\ pc' = "poll"
          /\ err' = err
          /\ cursor' = cursor
  /\ UNCHANGED <<script, state, last_press, listenerVars, q, wake, logVars>>
  /\ UNCHANGED <<hwVars, apiErr>>

\* Variant of ExecMalformed: the unparsable line is skipped silently.
ExecMalformedSkip ==
  /\ impl = "SIMULATED"
  /\ pc = "poll"
  /\ cursor < Len(script)
  /\ ParseFails(script[cursor + 1])
  /\ cursor' = cursor + 1
  /\ pc' = "poll"
  /\ result' = <<>>
  /\ UNCHANGED <<script, state, last_press, listen_for, tl, keypress, last_action,
                 q, err, now, wake, logVars>>
  /\ UNCHANGED <<hwVars, apiErr>>

\* async_wait consumes a line that does not parse: the position is already
\* advanced when split()/float() raise ValueError.
ExecMalformed ==
  /\ impl = "SIMULATED"
  /\ pc = "poll"
  /\ cursor < Len(script)
  /\ ParseFails(script[cursor + 1])
  /\ cursor' = cursor + 1
  /\ pc' = "failed"
  /\ err' = "ValueError"
  /\ result' = <<>>
  /\ UNCHANGED <<script, state, last_press, listen_for, tl, keypress, last_action,
                 q, now, wake, logVars>>
  /\ UNCHANGED <<hwVars, apiErr>>

\* async_wait consumes `sleep x`: suspended in asyncio.sleep(x).
ExecSleep ==
  /\ impl = "SIMULATED"
  /\ pc = "poll"
  /\ cursor < Len(script)
  /\ ~ParseFails(script[cursor + 1])
  /\ Op(script[cursor + 1]) = "sleep"
  /\ cursor' = cursor + 1
  /\ pc' = "sleeping"
  /\ wake' = now + Arg(script[cursor + 1])
  /\ result' = <<>>
  /\ UNCHANGED <<script, state, last_press, listen_for, tl, keypress, last_action,
                 q, err, now, logVars>>
  /\ UNCHANGED <<hwVars, apiErr>>

\* Variant of SleepWake: the recursion starts the script over.
SleepWakeRestart ==
  /\ impl = "SIMULATED"
  /\ pc = "sleeping"
  /\ now' = wake
  /\ pc' = "poll"
  /\ cursor' = 0
  /\ UNCHANGED <<script, state, last_press, listenerVars, q, err, wake, logVars>>
  /\ UNCHANGED <<hwVars, apiErr>>

\* asyncio.sleep(x) ends; `return await self.async_wait()` re-enters async_wait.
SleepWake ==
  /\ impl = "SIMULATED"
  /\ pc = "sleeping"
  /\ now' = wake
  /\ pc' = "poll"
  /\ UNCHANGED <<ifaceVars, listenerVars, q, err, wake, logVars>>
  /\ UNCHANGED <<hwVars, apiErr>>

\* async_wait consumes `down k` / `up k`: key_update, then the keypress is
\* returned to produce. A key the registry does not hold raises KeyError in
\* key_update, before anything is assigned.
ExecKey ==
  /\ impl = "SIMULATED"
  /\ pc = "poll"
  /\ cursor < Len(script)
  /\ ~ParseFails(script[cursor + 1])
  /\ Op(script[cursor + 1]) \in {"down", "up"}
  /\ cursor' = cursor + 1
  /\ result' = <<>>
  /\ LET arg == Arg(script[cursor + 1])
         down == Op(script[cursor + 1]) = "down"
     IN IF HasKey(arg)
        THEN /\ state' = KeyUpdatePressed(state, arg, down)
             /\ last_press' = <<arg, down>>
             /\ keypress' = <<arg, down>>
             /\ pollLog' = Append(pollLog, <<arg, down>>)
             /\ pc' = "classify"
             /\ err' = err
        ELSE /\ pc' = "failed"
             /\ err' = "KeyError"
             /\ UNCHANGED <<state, last_press, keypress, pollLog>>
  /\ UNCHANGED <<script, listen_for, tl, last_action, q, now, wake,
                 pushLog, putLog, received>>
  /\ UNCHANGED <<hwVars, apiErr>>

\* async_wait consumes a line whose op is none of sleep/down/up: the
\* if/elif chain falls through and the coroutine returns None.
ExecOtherOp ==
  /\ impl = "SIMULATED"
  /\ pc = "poll"
  /\ cursor < Len(script)
  /\ ~ParseFails(script[cursor + 1])
  /\ Op(script[cursor + 1]) \notin {"sleep", "down", "up"}
  /\ cursor' = cursor + 1
  /\ result' = <<>>
  /\ keypress' = None
  /\ pollLog' = Append(pollLog, None)
  /\ pc' = "classify"
  /\ UNCHANGED <<script, state, last_press, listen_for, tl, last_action, q, err,
                 now, wake, pushLog, putLog, received>>
  /\ UNCHANGED <<hwVars, apiErr>>

\* ---- KeyInterface, KEYBOW ----
\* The driver runs the handler registered by setup() on its own, at any
\* point of the asyncio task's execution: _handler -> key_update(idx, state).
\* A key index is kept x10 like every number of a keypress.
HWCallbackUpTo(n) ==
  /\ impl = "KEYBOW"
  /\ Len(cbLog) < n
  /\ \E idx \in 0..(KeyCount - 1), st \in BOOLEAN :
       /\ state' = KeyUpdatePressed(state, idx * 10, st)
       /\ last_press' = <<idx * 10, st>>
       /\ cbLog' = Append(cbLog, <<idx * 10, st>>)
  /\ UNCHANGED <<script, cursor, listenerVars, q, pc, err, now, wake, logVars,
                 impl, last, apiErr>>

HWCallback == HWCallbackUpTo(MaxCallbacks)

\* async_wait, KEYBOW: `last = self._last_press`
HWRead ==
  /\ impl = "KEYBOW"
  /\ pc = "poll"
  /\ last' = last_press
  /\ result' = <<>>
  /\ pc' = "hw_test"
  /\ UNCHANGED <<ifaceVars, listen_for, tl, keypress, last_action, q, err, now, wake,
                 logVars, impl, cbLog, apiErr>>

\* async_wait, KEYBOW: `if last:` clears the mailbox and returns last,
\* otherwise the task sleeps 1/120 s.
HWTest ==
  /\ impl = "KEYBOW"
  /\ pc = "hw_test"
  /\ IF last # None
     THEN /\ last_press' = None
          /\ keypress' = last
          /\ pollLog' = Append(pollLog, last)
          /\ pc' = "classify"
     ELSE /\ pc' = "hw_sleep"
          /\ UNCHANGED <<last_press, keypress, pollLog>>
  /\ UNCHANGED <<script, cursor, state, listen_for, tl, last_action, result, q, err,
                 now, wake, pushLog, putLog, received, hwVars, apiErr>>

\* asyncio.sleep(1.0 / 120.0) ends (1/120 s is below the resolution of the
\* clock); back to the top of the while loop.
HWSleepWake ==
  /\ impl = "KEYBOW"
  /\ pc = "hw_sleep"
  /\ pc' = "hw_read"
  /\ UNCHANGED <<ifaceVars, listenerVars, q, err, now, wake, logVars, hwVars, apiErr>>

\* async_wait, KEYBOW, second and later rounds of the while loop.
HWReadAgain ==
  /\ impl = "KEYBOW"
  /\ pc = "hw_read"
  /\ last' = last_press
  /\ pc' = "hw_test"
  /\ UNCHANGED <<ifaceVars, listenerVars, q, err, now, wake, logVars, impl, cbLog, apiErr>>

\* async_wait, DUMMY: neither branch is taken, the coroutine returns None.
DummyWait ==
  /\ impl = "DUMMY"
  /\ pc = "poll"
  /\ result' = <<>>
  /\ keypress' = None
  /\ pollLog' = Append(pollLog, None)
  /\ pc' = "classify"
  /\ UNCHANGED <<ifaceVars, listen_for, tl, last_action, q, err, now, wake,
                 pushLog, putLog, received, hwVars, apiErr>>

\* ---- KeyState ----

\* The values callers assign to pressed.
PyValues == {PyTrue, PyFalse, PyInt(0), PyInt(1), PyInt(2), PyStr, PyNone}

\* `var not in (True, False)`
NotTrueFalse(var) == ~(PyEq(var, PyTrue) \/ PyEq(var, PyFalse))

\* pressed.setter, on key k of the registry
PressedSet(k, var) ==
  /\ IF NotTrueFalse(var)
     THEN /\ apiErr' = "KeyStateError"
          /\ state' = state
     ELSE /\ apiErr' = ""
          /\ state' = [state EXCEPT ![k] = [@ EXCEPT !.pressed = var]]
  /\ UNCHANGED <<script, cursor, last_press, listenerVars, q, pc, err, now, wake,
                 logVars, hwVars>>

\* KeyState.down(): self._pressed = True
KeyDown(k) ==
  /\ state' = [state EXCEPT ![k] = [@ EXCEPT !.pressed = PyTrue]]
  /\ apiErr' = ""
  /\ UNCHANGED <<script, cursor, last_press, listenerVars, q, pc, err, now, wake,
                 logVars, hwVars>>

\* KeyState.up(): self.pressed = False
KeyUp(k) == PressedSet(k, PyFalse)

\* KeyState.is_lit()
IsLit(ks) == ~(ks.r = 0 /\ ks.g = 0 /\ ks.b = 0)

\* KeyState.set_colour(r, g, b)
SetColour(ks, r, g, b) == [ks EXCEPT !.r = r, !.g = g, !.b = b]

\* Variant of ClearKey: the pressed flag is reset as well.
ClearKeyAll(ks) == [ks EXCEPT !.r = 0, !.g = 0, !.b = 0, !.pressed = PyFalse]

\* KeyState.clear()
ClearKey(ks) == [ks EXCEPT !.r = 0, !.g = 0, !.b = 0]

\* ---- KeyInterface: LED control ----

\* The value of a hex digit.
HexVal(c) ==
  CASE c = "0" -> 0 [] c = "1" -> 1 [] c = "2" -> 2 [] c = "3" -> 3
    [] c = "4" -> 4 [] c = "5" -> 5 [] c = "6" -> 6 [] c = "7" -> 7
    [] c = "8" -> 8 [] c = "9" -> 9 [] c = "a" -> 10 [] c = "b" -> 11
    [] c = "c" -> 12 [] c = "d" -> 13 [] c = "e" -> 14 [] c = "f" -> 15

\* _from_hexcode(code): a hexcode is the tuple of its six digits.
FromHexcode(code) ==
  <<16 * HexVal(code[1]) + HexVal(code[2]),
    16 * HexVal(code[3]) + HexVal(code[4]),
    16 * HexVal(code[5]) + HexVal(code[6])>>

\* The hexcodes callers pass: "ff0000" and "000080"; no hexcode is None.
Hexcodes == {<<"f", "f", "0", "0", "0", "0">>, <<"0", "0", "0", "0", "8", "0">>}

ledFrame == <<script, cursor, last_press, listenerVars, q, pc, err, now, wake,
              logVars, hwVars>>

\* set_led(idx, r, g, b); show() only logs.
SetLedState(st, idx, rgb) ==
  [st EXCEPT ![idx] = SetColour(@, rgb[1], rgb[2], rgb[3])]

SetLed(idx, rgb) ==
  /\ state' = SetLedState(state, idx, rgb)
  /\ apiErr' = ""
  /\ UNCHANGED ledFrame

\* led_on(key_idx, hexcode)
LedOn(key_idx, hexcode) == SetLed(key_idx, FromHexcode(hexcode))

\* led_off(key_idx)
LedOff(key_idx) == SetLed(key_idx, <<0, 0, 0>>)

\* Variant of LedToggle: a lit key given a hexcode takes that colour.
LedToggleRecolour(key_idx, hexcode) ==
  IF IsLit(state[key_idx]) /\ hexcode = None
  THEN LedOff(key_idx)
  ELSE IF hexcode = None
  THEN /\ apiErr' = "LEDInterfaceError"
       /\ state' = state
       /\ UNCHANGED ledFrame
  ELSE LedOn(key_idx, hexcode)

\* led_toggle(key_idx, hexcode=None)
LedToggle(key_idx, hexcode) ==
  IF IsLit(state[key_idx])
  THEN LedOff(key_idx)
  ELSE IF hexcode = None
  THEN /\ apiErr' = "LEDInterfaceError"
       /\ state' = state
       /\ UNCHANGED ledFrame
  ELSE LedOn(key_idx, hexcode)

\* all_leds_off()
AllLedsOff ==
  /\ state' = [k \in DOMAIN state |-> SetColour(state[k], 0, 0, 0)]
  /\ apiErr' = ""
  /\ UNCHANGED ledFrame

\* clear()
Clear ==
  /\ state' = [k \in DOMAIN state |-> ClearKey(state[k])]
  /\ apiErr' = ""
  /\ UNCHANGED ledFrame

\* ---- KeySequenceListener.produce ----

\* Variant of IsKeyUp: the test is taken on key down.
IsKeyDown(kp) == kp[2]

\* `if not keypress[1]`
IsKeyUp(kp) == ~kp[2]

\* [kp for kp in list(self._tl) if kp and kp[1][0] == keypress[0]]
KeyHistory(timeline, key) ==
  SelectSeq(timeline, LAMBDA kp : kp # None /\ kp[2][1] = key)

\* (time.time() - last_action[0]) * 1000
PressDuration(t, entry) == (t - entry[1]) * 100

\* Variant of Classification: HOLD from the threshold on (>=).
ClassificationGe(duration, key, listen) ==
  IF duration >= HoldThresholdMs /\ "HOLD" \in listen
  THEN <<IntOf(key), "HOLD">>
  ELSE <<IntOf(key), "SINGLE">>

\* Variant of Classification: a listener for DOUBLE is given DOUBLE.
ClassificationDouble(duration, key, listen) ==
  IF duration > HoldThresholdMs /\ "HOLD" \in listen
  THEN <<IntOf(key), "HOLD">>
  ELSE IF "DOUBLE" \in listen
  THEN <<IntOf(key), "DOUBLE">>
  ELSE <<IntOf(key), "SINGLE">>

\* The HOLD / SINGLE decision for a release of `key`.
Classification(duration, key, listen) ==
  IF duration > HoldThresholdMs /\ "HOLD" \in listen
  THEN <<IntOf(key), "HOLD">>
  ELSE <<IntOf(key), "SINGLE">>

\* Variant of AppendLeft: the entry goes to the tail and the head is dropped.
AppendRight(timeline, entry) ==
  SubSeq(timeline \o <<entry>>, 2, TimelineCap + 1)

\* self._tl.appendleft(entry) on a deque of maxlen 50
AppendLeft(timeline, entry) ==
  SubSeq(<<entry>> \o timeline, 1, TimelineCap)

\* Variant of Classify: the event is appended to the timeline before the
\* search (and again by the append that follows).
ClassifyAfterAppend ==
  /\ pc = "classify"
  /\ IF keypress = None
     THEN /\ pc' = "failed"
          /\ err' = "TypeError"
          /\ UNCHANGED <<last_action, result, tl, pushLog>>
     ELSE /\ tl' = AppendLeft(tl, <<now, keypress>>)
          /\ pushLog' = Append(pushLog, <<now, keypress>>)
          /\ pc' = "record"
          /\ err' = err
          /\ IF ~IsKeyUp(keypress)
             THEN UNCHANGED <<last_action, result>>
             ELSE LET key_history == KeyHistory(AppendLeft(tl, <<now, keypress>>),
                                                keypress[1])
                  IN /\ last_action' = key_history[1]
                     /\ result' = Classification(PressDuration(now, key_history[1]),
                                                 keypress[1], listen_for)
  /\ UNCHANGED <<ifaceVars, listen_for, keypress, q, now, wake,
                 pollLog, putLog, received>>
  /\ UNCHANGED <<hwVars, apiErr>>

\* The body of the loop up to the timeline append.
Classify ==
  /\ pc = "classify"
  /\ IF keypress = None
     THEN /\ pc' = "failed"
          /\ err' = "TypeError"
          /\ UNCHANGED <<last_action, result>>
     ELSE IF ~IsKeyUp(keypress)
     THEN /\ pc' = "record"
          /\ UNCHANGED <<err, last_action, result>>
     ELSE LET key_history == KeyHistory(tl, keypress[1])
          IN IF key_history = <<>>
             THEN /\ pc' = "failed"
                  /\ err' = "IndexError"
                  /\ UNCHANGED <<last_action, result>>
             ELSE /\ last_action' = key_history[1]
                  /\ result' = Classification(PressDuration(now, key_history[1]),
                                              keypress[1], listen_for)
                  /\ pc' = "record"
                  /\ err' = err
  /\ UNCHANGED <<ifaceVars, listen_for, tl, keypress, q, now, wake, logVars>>
  /\ UNCHANGED <<hwVars, apiErr>>

\* self._tl.appendleft((time.time(), keypress),)
Record ==
  /\ pc = "record"
  /\ tl' = AppendLeft(tl, <<now, keypress>>)
  /\ pushLog' = Append(pushLog, <<now, keypress>>)
  /\ pc' = "put"
  /\ UNCHANGED <<ifaceVars, listen_for, keypress, last_action, result, q, err,
                 now, wake, pollLog, putLog, received>>
  /\ UNCHANGED <<hwVars, apiErr>>

\* await q.put(result) on the unbounded queue; back to the top of the loop.
Put ==
  /\ pc = "put"
  /\ q' = Append(q, result)
  /\ putLog' = Append(putLog, result)
  /\ pc' = "poll"
  /\ UNCHANGED <<ifaceVars, listenerVars, err, now, wake, pollLog, pushLog, received>>
  /\ UNCHANGED <<hwVars, apiErr>>

\* ---- example.py: process_keystrokes ----
Consume ==
  /\ q # <<>>
  /\ received' = Append(received, Head(q))
  /\ q' = Tail(q)
  /\ UNCHANGED <<ifaceVars, listenerVars, pc, err, now, wake, pollLog, pushLog, putLog>>
  /\ UNCHANGED <<hwVars, apiErr>>

Next ==
  \/ ScriptCompleted
  \/ ScriptCompletedWake
  \/ ExecMalformed
  \/ ExecSleep
  \/ SleepWake
  \/ ExecKey
  \/ ExecOtherOp
  \/ Classify
  \/ Record
  \/ Put
  \/ Consume

Spec == Init /\ [][Next]_vars

\* The hardware event source: driver callback, polling loop, produce, consumer.
NextHW ==
  \/ HWCallback
  \/ HWRead
  \/ HWTest
  \/ HWSleepWake
  \/ HWReadAgain
  \/ Classify
  \/ Record
  \/ Put
  \/ Consume

SpecHW == InitHW /\ [][NextHW]_vars

\* KeyState on its own: callers assigning pressed on the keys of a registry.
InitKeyState ==
  /\ impl = "DUMMY"
  /\ script = <<>>
  /\ listen_for = {"SINGLE"}
  /\ InitRest

PressedSetAny == \E k \in DOMAIN state, var \in PyValues : PressedSet(k, var)
KeyDownAny == \E k \in DOMAIN state : KeyDown(k)
KeyUpAny == \E k \in DOMAIN state : KeyUp(k)

NextKeyState ==
  \/ PressedSetAny
  \/ KeyDownAny
  \/ KeyUpAny

SpecKeyState == InitKeyState /\ [][NextKeyState]_vars

\* LED control called while any of the event sources feeds the listener.
LedScriptLines == {"down 0", "up 0", "sleep 0.6", "down", "blink 1"}

LedScripts == UNION {[1..n -> LedScriptLines] : n \in 0..MaxLedScriptLen}

InitLED ==
  /\ impl \in {"SIMULATED", "KEYBOW", "DUMMY"}
  /\ script \in (IF impl = "SIMULATED" THEN LedScripts ELSE {<<>>})
  /\ listen_for = {"SINGLE", "HOLD"}
  /\ InitRest

LedHWCallback == HWCallbackUpTo(MaxLedCallbacks)
SetLedAny ==
  \E k \in DOMAIN state, h \in Hexcodes \cup {<<"0", "0", "0", "0", "0", "0">>} :
    SetLed(k, FromHexcode(h))
LedOnAny == \E k \in DOMAIN state, h \in Hexcodes : LedOn(k, h)
LedOffAny == \E k \in DOMAIN state : LedOff(k)
LedToggleAny == \E k \in DOMAIN state, h \in Hexcodes \cup {None} : LedToggle(k, h)

LedStep ==
  \/ SetLedAny
  \/ LedOnAny
  \/ LedOffAny
  \/ LedToggleAny
  \/ AllLedsOff
  \/ Clear

NextLED ==
  \/ Next
  \/ LedHWCallback
  \/ HWRead
  \/ HWTest
  \/ HWSleepWake
  \/ HWReadAgain
  \/ DummyWait
  \/ LedStep

SpecLED == InitLED /\ [][NextLED]_vars

\* ---- properties ----

IsRelease(kp) == kp # None /\ ~kp[2]

\* The entries a timeline holds (the None padding left out).
Recorded(timeline) == SelectSeq(timeline, LAMBDA e : e # None)

NonEmptyItems(log) == {i \in 1..Len(log) : log[i] # <<>>}

\* C1: a release polled while the timeline holds no entry for its key is
\* answered with the empty marker and the loop goes on (no failure).
C1_UnmatchedReleaseYieldsEmpty ==
  [][(pc = "classify" /\ IsRelease(keypress)
        /\ KeyHistory(tl, keypress[1]) = <<>>)
     => (pc' = "record" /\ result' = <<>> /\ err' = "")]_vars

\* C2: every non-empty item on the output channel carries a sequence of the
\* listener's interest set.
C2_OnlyInterestSetPublished ==
  \A i \in 1..Len(q) : q[i] # <<>> => q[i][2] \in listen_for

\* C3: for a release whose timeline entry was recorded d ms earlier, the
\* published item is (k, HOLD) iff d > 500 and HOLD is listened for; with
\* d = 500, or with SINGLE but not HOLD listened for, it is (k, SINGLE).
\* The scripts down k / sleep 0.2 / up k and down k / sleep 0.6 / up k give
\* (k, SINGLE), and (k, HOLD) resp. (k, SINGLE) under {SINGLE, HOLD} resp. {SINGLE}.
C3_HoldIffLongAndListened ==
  /\ [][(pc = "put" /\ pc' = "poll" /\ IsRelease(keypress))
        => LET d == (now - last_action[1]) * 100
               k == IntOf(keypress[1])
               item == q'[Len(q')]
           IN /\ (item = <<k, "HOLD">>) <=> (d > 500 /\ "HOLD" \in listen_for)
              /\ (d = 500 \/ ("HOLD" \notin listen_for /\ "SINGLE" \in listen_for))
                   => item = <<k, "SINGLE">>]_vars
  /\ [](\A k \in {0, 1} :
          /\ (/\ script = IF k = 0 THEN <<"down 0", "sleep 0.2", "up 0">>
                                   ELSE <<"down 1", "sleep 0.2", "up 1">>
              /\ Len(putLog) = 2
              /\ "SINGLE" \in listen_for)
               => putLog[2] = <<k, "SINGLE">>
          /\ (/\ script = IF k = 0 THEN <<"down 0", "sleep 0.6", "up 0">>
                                   ELSE <<"down 1", "sleep 0.6", "up 1">>
              /\ Len(putLog) = 2
              /\ "SINGLE" \in listen_for)
               => putLog[2] = <<k, IF "HOLD" \in listen_for THEN "HOLD" ELSE "SINGLE">>)

C3_Witness ==
  /\ script = <<"down 0", "sleep 0.5", "up 0">>
  /\ listen_for = {"SINGLE", "HOLD"}
  /\ pc = "poll"
  /\ IsRelease(keypress)
  /\ (now - last_action[1]) * 100 = 500
  /\ putLog = << <<>>, <<0, "SINGLE">> >>

\* C4: once poll() is suspended on the exhausted script it stays suspended:
\* it never returns or raises, the loop does not fail, nothing is published.
C4_ExhaustedPollStaysSuspended ==
  [][pc = "idle" => (pc' = "idle" /\ err' = "" /\ putLog' = putLog)]_vars

\* C5: one item is put per event poll() returned, in the same order, and the
\* consumer receives the items in the order they were put.
C5_OneItemPerPolledEvent ==
  /\ received \o q = putLog
  /\ pc \in {"poll", "sleeping", "idle", "failed"}
       => Len(putLog) = Len(SelectSeq(pollLog, LAMBDA e : e # None))
  /\ \A i \in NonEmptyItems(putLog) :
       /\ pollLog[i] # None
       /\ putLog[i][1] = IntOf(pollLog[i][1])

\* C6: a press publishes the empty marker; a press-sleep-release script of
\* one key publishes exactly one non-empty item, the one of the release; the
\* non-empty items never outnumber the releases polled.
C6_PressNeverClassified ==
  /\ \A i \in 1..Len(putLog) : pollLog[i][2] => putLog[i] = <<>>
  /\ Cardinality(NonEmptyItems(putLog))
       <= Cardinality({i \in 1..Len(pollLog) : IsRelease(pollLog[i])})
  /\ \A c \in {<<"down 0", "up 0">>, <<"down 1", "up 1">>} :
       \A s \in {"sleep 0.2", "sleep 0.5", "sleep 0.6"} :
         (script = <<c[1], s, c[2]>> /\ pc \in {"idle", "failed"})
           => NonEmptyItems(putLog) = {2}

C6_Witness ==
  /\ script = <<"down 1", "sleep 0.2", "up 1">>
  /\ pc = "idle"
  /\ putLog = << <<>>, <<1, "SINGLE">> >>

\* C7: the timeline holds at most 50 recorded transitions, newest first:
\* after n pushes it holds exactly the newest min(n, 50) of them, the most
\* recent at the head, and none of the older ones.
C7_TimelineNewestFifty ==
  LET n == Len(pushLog)
      m == IF n < TimelineCap THEN n ELSE TimelineCap
  IN /\ Len(tl) = TimelineCap
     /\ Len(Recorded(tl)) = m
     /\ m <= 50
     /\ \A i \in 1..m : tl[i] = pushLog[n - i + 1]
     /\ \A i \in (m + 1)..Len(tl) : tl[i] = None

C7_Witness ==
  /\ Len(pushLog) > 50
  /\ tl[1] = pushLog[Len(pushLog)]
  /\ tl[50] = pushLog[Len(pushLog) - 49]

\* C8: every item on the output channel is the empty marker or a pair of an
\* integer key of the registry and SINGLE or HOLD; DOUBLE is never published.
C8_ItemsWellFormedNoDouble ==
  \A i \in 1..Len(q) :
    \/ q[i] = <<>>
    \/ /\ Len(q[i]) = 2
       /\ q[i][1] \in DOMAIN state
       /\ q[i][2] \in {"SINGLE", "HOLD"}

C8_Witness ==
  /\ "DOUBLE" \in listen_for
  /\ \E i \in 1..Len(q) : q[i] # <<>> /\ q[i][1] = 1 /\ q[i][2] \in {"SINGLE", "HOLD"}

\* C9: a malformed line (token count other than 2, or non-numeric argument)
\* makes poll() raise: the loop stops with that error, no pressed flag
\* changes, nothing is recorded or published for it, and nothing of the
\* script is executed afterwards.
C9_MalformedLineStopsLoop ==
  [][/\ (/\ pc = "poll"
         /\ cursor < Len(script)
         /\ (LET toks == Split(script[cursor + 1])
             IN IF Len(toks) # 2 THEN TRUE ELSE ~IsFloat(toks[2]))
         /\ cursor' # cursor)
        => /\ pc' = "failed"
           /\ err' = "ValueError"
           /\ UNCHANGED <<state, tl, pushLog, putLog, q>>
     /\ pc = "failed"
        => UNCHANGED <<pc, err, cursor, state, tl, pushLog, putLog, pollLog>>]_vars

C9_Witness ==
  /\ pc = "failed"
  /\ err = "ValueError"
  /\ Len(putLog) > 0
  /\ cursor < Len(script)

\* C10: when key k is released, the entry the duration is measured from is
\* the most recent timeline entry of key k with pressed = true, never an
\* earlier release entry of key k.
C10_DurationFromMostRecentPress ==
  (pc = "record" /\ IsRelease(keypress))
    => LET presses == SelectSeq(tl, LAMBDA e :
                        e # None /\ e[2][1] = keypress[1] /\ e[2][2])
       IN /\ presses # <<>>
          /\ last_action = presses[1]

\* C11: the hardware mailbox keeps one pending transition: a poll() returns
\* only a pending transition, and it is the most recently recorded one (of
\* t1, t2 recorded with no poll() completing in between, t2 is returned and
\* t1 never); the mailbox is empty once poll() has returned.
C11_MailboxReturnsLatest ==
  [][(pc = "hw_test" /\ pc' = "classify")
     => /\ cbLog # <<>>
        /\ keypress' = cbLog[Len(cbLog)]
        /\ last_press' = None
        /\ Len(SelectSeq(pollLog', LAMBDA e : e # None)) <= Len(cbLog)]_vars

\* C19: the most recent transition the callback recorded is never lost: it
\* is pending in the mailbox, held by the poll() in progress, or was returned
\* by a poll() (stated for a transition that was recorded only once).
C19_LatestTransitionNotLost ==
  (cbLog # <<>>
     /\ Len(SelectSeq(cbLog, LAMBDA e : e = cbLog[Len(cbLog)])) = 1)
    => LET t == cbLog[Len(cbLog)]
       IN \/ last_press = t
          \/ (pc = "hw_test" /\ last = t)
          \/ \E i \in 1..Len(pollLog) : pollLog[i] = t

\* The well-formed down/up lines of keys the registry holds, and their events.
DownUpLines == {"down 0", "up 0", "down 1", "up 1"}
SleepLines == {"sleep 0.2", "sleep 0.5", "sleep 0.6"}

EventOfLine(cmd) ==
  CASE cmd = "down 0" -> <<0, TRUE>>
    [] cmd = "up 0" -> <<0, FALSE>>
    [] cmd = "down 1" -> <<10, TRUE>>
    [] cmd = "up 1" -> <<10, FALSE>>

Pressed(st) == [k \in DOMAIN st |-> st[k].pressed]
Colours(st) == [k \in DOMAIN st |-> <<st[k].r, st[k].g, st[k].b>>]

PolledEvents == SelectSeq(pollLog, LAMBDA e : e # None)

\* C12: the put never blocks: the producer at q.put can always complete it,
\* and with a consumer that never runs a script of n down/up commands ends
\* with n items on the channel and the cursor at the end of the script.
C12_PutNeverBlocks ==
  /\ pc = "put" => ENABLED Put
  /\ ((\A i \in 1..Len(script) : script[i] \in DownUpLines)
        /\ received = <<>>
        /\ pc \in {"idle", "failed"})
     => (Len(q) = Len(script) /\ cursor = Len(script))

C14_PressedOnlyBoolean ==
  [][\A k \in DOMAIN state, var \in PyValues :
       PressedSet(k, var)
         => IF var.t = "bool"
            THEN apiErr' = "" /\ state'[k].pressed = var
            ELSE apiErr' = "KeyStateError" /\ state' = state]_vars

\* C15: led_toggle(k): a lit key becomes unlit, with or without a colour;
\* an unlit key without a colour fails with an LED error and no key changes;
\* an unlit key with a colour takes that colour.
C15_LedToggle ==
  [][\A k \in DOMAIN state, h \in Hexcodes \cup {None} :
       LedToggle(k, h)
         => /\ \A j \in DOMAIN state \ {k} : state'[j] = state[j]
            /\ state'[k].pressed = state[k].pressed
            /\ IF state[k].r # 0 \/ state[k].g # 0 \/ state[k].b # 0
               THEN Colours(state')[k] = <<0, 0, 0>> /\ apiErr' = ""
               ELSE IF h = None
               THEN apiErr' = "LEDInterfaceError" /\ state' = state
               ELSE /\ apiErr' = ""
                    /\ Colours(state')[k] =
                         IF h = <<"f", "f", "0", "0", "0", "0">>
                         THEN <<255, 0, 0>> ELSE <<0, 0, 128>>]_vars

C15_Witness ==
  /\ apiErr = "LEDInterfaceError"
  /\ Colours(state)[0] = <<0, 0, 128>>
  /\ Colours(state)[1] = <<0, 0, 0>>
  /\ Colours(state)[2] = <<255, 0, 0>>

RECURSIVE ReturnsOf(_, _)
ReturnsOf(scr, n) ==
  IF n = 0 THEN <<>>
  ELSE LET cmd == scr[n]
           before == ReturnsOf(scr, n - 1)
       IN IF cmd \in DownUpLines THEN Append(before, EventOfLine(cmd))
          ELSE IF cmd = "blink 1" THEN Append(before, None)
          ELSE before

\* C17: 0 <= cursor <= length of the script; only poll() moves the cursor,
\* by exactly 1 per consumed command; the commands are executed in list
\* order, each at most once.
C17_CursorMonotone ==
  /\ [](0 <= cursor /\ cursor <= Len(script))
  /\ [][cursor' # cursor
          => (cursor' = cursor + 1 /\ pc = "poll" /\ pc' # pc)]_vars
  /\ [](pollLog = ReturnsOf(script, cursor))

C17_Witness ==
  /\ script = <<"down 1", "sleep 0.2", "up 1">>
  /\ cursor = 3
  /\ pollLog = << <<10, TRUE>>, <<10, FALSE>> >>

\* C18: scripted poll(): `down k` / `up k` set key k's pressed flag and
\* return (k, true) / (k, false) without suspending; `sleep x` returns no
\* event, after the delay poll() goes on with the next command; a script of
\* sleeps and n down/up commands yields n poll() results, and a trailing
\* sleep is followed by the suspension on the exhausted script.
C18_ScriptedPoll ==
  /\ [][/\ (pc = "poll" /\ cursor < Len(script) /\ cursor' # cursor
              /\ script[cursor + 1] \in DownUpLines)
             => LET ev == EventOfLine(script[cursor + 1])
                IN /\ pc' = "classify"
                   /\ keypress' = ev
                   /\ pollLog' = Append(pollLog, ev)
                   /\ state'[ev[1] \div 10].pressed = (IF ev[2] THEN PyTrue ELSE PyFalse)
                   /\ \A j \in DOMAIN state \ {ev[1] \div 10} : state'[j] = state[j]
                   /\ now' = now
        /\ (pc = "poll" /\ cursor < Len(script) /\ cursor' # cursor
              /\ script[cursor + 1] \in SleepLines)
             => (pc' = "sleeping" /\ pollLog' = pollLog /\ wake' > now)
        /\ (pc = "sleeping" /\ pc' # pc)
             => (pc' = "poll" /\ now' = wake /\ pollLog' = pollLog /\ cursor' = cursor)
        /\ (pc = "poll" /\ cursor = Len(script) /\ pc' # pc) => pc' = "idle"]_vars
  /\ []((pc = "idle" /\ \A i \in 1..Len(script) : script[i] \in DownUpLines \cup SleepLines)
          => Len(pollLog) = Cardinality({i \in 1..Len(script) : script[i] \in DownUpLines}))

C18_Witness ==
  /\ script = <<"sleep 0.2", "down 1", "sleep 0.6">>
  /\ pc = "idle"
  /\ now = 8
  /\ pollLog = << <<10, TRUE>> >>
  /\ state[1].pressed = PyTrue

\* C20: whatever the scripted poll() returns to produce is a pair of a key
\* index of the registry and a boolean; a line with an op other than
\* sleep/down/up, or with a key index outside the registry, returns no
\* non-pair value and changes no pressed flag, timeline entry or channel.
C20_PollReturnsPair ==
  [][/\ (impl = "SIMULATED" /\ pc = "poll" /\ pc' = "classify")
          => /\ keypress' # None
             /\ keypress'[1] \in {0, 10, 20}
             /\ keypress'[2] \in BOOLEAN
     /\ (pc = "poll" /\ cursor < Len(script) /\ cursor' # cursor
           /\ script[cursor + 1] \in {"blink 1", "down 7"})
          => (pollLog' = pollLog /\ UNCHANGED <<state, tl, q>>)]_vars

====
